---- MODULE Spec2Model ----
(***************************************************************************)
(* The script bridge of engine/src/main.rs: the Startup system             *)
(* load_script_system, the Update system script_update_system, the         *)
(* resources they share, and the host run loop that drives them.           *)
(*                                                                         *)
(* Elapsed time is counted in units of 1/60 s, so the literal 1.0 / 60.0   *)
(* of the source is the value 1.                                           *)
(***************************************************************************)
EXTENDS Integers, Sequences, FiniteSets, TLC

\* ---------------------------------------------------------------- bounds
\* Ticks the host run loop delivers at most in one run.
MaxTicks == 13
\* Largest elapsed time of one tick, in units of 1/60 s.
MaxDelta == 2

\* ------------------------------------------------------ program constants
\* `c.0 > 10`: the frame limit of script_update_system.
FrameLimit == 10
\* `1.0 / 60.0`: the argument the source passes to zig_update.
FixedDt == 1

\* Option<T>: None is the empty sequence, Some(x) the one-element sequence.
None == <<>>
Some(x) == <<x>>
IsSome(o) == o # <<>>

\* The export names the source looks up.
ExportNames == {"zig_init", "zig_update", "zig_update_void"}
\* The two exports load_script_system needs before it activates the bridge.
Required == {"zig_init", "zig_update"}
\* Elapsed times the host may report for a tick.
Deltas == 0..MaxDelta

VARIABLES
    \* the module file at get_script_path()
    pathExists,     \* script_path.exists()
    loadable,       \* Library::new on that file succeeds
    exports,        \* the symbols the module exports
    appearedLate,   \* the file was created after the Startup system ran
    \* control
    pc,             \* position of the host thread in the hooks
    tick,           \* ticks the host has delivered so far
    delta,          \* elapsed time the host reports for the present tick
    appExit,        \* an AppExit event has been sent
    runsOn,         \* thread the executor runs the present system on
    \* world
    commands,       \* Commands queued by the Startup system, not yet applied
    ScriptFns,      \* Option<Res<ScriptFns>>
    FrameCounter,   \* Option<ResMut<FrameCounter>>
    UPDATE_LOCK,    \* holder of the static mutex, or "free"
    static_lib,     \* the leaked &'static Library is loaded
    freshOpen,      \* Library values of the per-tick loads not yet dropped
    \* calls into the module
    inCall,         \* the native call in progress, if any
    initCalls,      \* calls of zig_init begun
    updateCalls,    \* calls of zig_update begun, through any handle
    voidCalls,      \* calls of zig_update_void begun
    tickUpdates,    \* calls of zig_update begun in the present tick
    returned,       \* calls into the module that have returned
    \* observations
    activation,     \* outcome of load_script_system
    tickLoads,      \* Library::new calls made by script_update_system
    tickLocks,      \* UPDATE_LOCK.lock() calls made in the present tick
    lookedUp        \* names passed to Library::get, with the system that did

envVars   == <<pathExists, loadable, exports, appearedLate>>
hostVars  == <<tick, delta, appExit, runsOn>>
worldVars == <<commands, ScriptFns, FrameCounter>>
libVars   == <<static_lib, freshOpen>>
callVars  == <<inCall, initCalls, updateCalls, voidCalls, tickUpdates, returned>>
obsVars   == <<activation, tickLoads, tickLocks, lookedUp>>
vars == <<envVars, hostVars, worldVars, libVars, callVars, obsVars, pc, UPDATE_LOCK>>

\* A call into the module: the export, its arguments, the system calling and the
\* Library value the function pointer was taken from.
Call(fn, args, system, handle) ==
    [fn |-> fn, args |-> args, system |-> system, handle |-> handle]

\* The module files a run can start with: none, one that does not load, or a
\* loadable one with any set of exports.
ModuleFiles ==
    {[exists |-> FALSE, loads |-> FALSE, syms |-> {}],
     [exists |-> TRUE, loads |-> FALSE, syms |-> {}]}
    \cup {[exists |-> TRUE, loads |-> TRUE, syms |-> s] : s \in SUBSET ExportNames}

Init ==
    /\ \E f \in ModuleFiles :
          /\ pathExists = f.exists
          /\ loadable = f.loads
          /\ exports = f.syms
    /\ appearedLate = FALSE
    /\ pc = "boot"
    /\ tick = 0
    /\ delta = 0
    /\ appExit = FALSE
    /\ runsOn = "main"
    /\ commands = <<>>
    /\ ScriptFns = None
    /\ FrameCounter = None
    /\ UPDATE_LOCK = "free"
    /\ static_lib = FALSE
    /\ freshOpen = 0
    /\ inCall = None
    /\ initCalls = 0
    /\ updateCalls = 0
    /\ voidCalls = 0
    /\ tickUpdates = 0
    /\ returned = 0
    /\ activation = "pending"
    /\ tickLoads = 0
    /\ tickLocks = 0
    /\ lookedUp = {}

\* ------------------------------------------------- load_script_system
\* Threads the executor of a schedule can run a system on: the thread that
\* called App::run, or a thread of the compute task pool.
Threads == {"main", "worker"}

\* Threads a system may be run on: one with a NonSend parameter only on the
\* main thread, any other on whichever thread takes it.
ThreadsFor(nonSend) == IF nonSend THEN {"main"} ELSE Threads

\* The Startup schedule runs load_script_system once, before any Update.
\* `fn load_script_system(mut commands: Commands)` takes no NonSend parameter.
RunStartup ==
    /\ pc = "boot"
    /\ pc' = "s_locate"
    /\ \E t \in ThreadsFor(FALSE) : runsOn' = t
    /\ UNCHANGED <<envVars, tick, delta, appExit, worldVars, libVars, callVars, obsVars,
                   UPDATE_LOCK>>

\* LocateScript with the test inverted: `if script_path.exists() { return; }`.
LocateScript_inverted ==
    /\ pc = "s_locate"
    /\ IF ~pathExists
          THEN pc' = "s_load" /\ UNCHANGED activation
          ELSE pc' = "s_return" /\ activation' = "ModuleNotFound"
    /\ UNCHANGED <<envVars, hostVars, worldVars, libVars, callVars, tickLoads, tickLocks, lookedUp,
                   UPDATE_LOCK>>

\* `if !script_path.exists() { error!(..); return; }`
LocateScript ==
    /\ pc = "s_locate"
    /\ IF pathExists
          THEN pc' = "s_load" /\ UNCHANGED activation
          ELSE pc' = "s_return" /\ activation' = "ModuleNotFound"
    /\ UNCHANGED <<envVars, hostVars, worldVars, libVars, callVars, tickLoads, tickLocks, lookedUp,
                   UPDATE_LOCK>>

\* `match Library::new(&script_path)`: Ok leaks the library, Err logs and returns.
LoadLibrary ==
    /\ pc = "s_load"
    /\ IF loadable
          THEN pc' = "s_get_init" /\ static_lib' = TRUE /\ UNCHANGED activation
          ELSE pc' = "s_return" /\ activation' = "LoadFailed" /\ UNCHANGED static_lib
    /\ UNCHANGED <<envVars, hostVars, worldVars, freshOpen, callVars, tickLoads, tickLocks, lookedUp,
                   UPDATE_LOCK>>

\* ResolveInit calling the initializer as soon as it is resolved, before
\* zig_update has been looked up.
ResolveInit_callsEarly ==
    /\ pc = "s_get_init"
    /\ lookedUp' = lookedUp \cup {<<"load_script_system", "zig_init">>}
    /\ IF "zig_init" \in exports
          THEN pc' = "s_call_init" /\ UNCHANGED activation
          ELSE pc' = "s_return" /\ activation' = "SymbolNotFound"
    /\ UNCHANGED <<envVars, hostVars, worldVars, libVars, callVars, tickLoads, tickLocks, UPDATE_LOCK>>

\* `static_lib.get(b"zig_init")`: Err logs and returns.
ResolveInit ==
    /\ pc = "s_get_init"
    /\ lookedUp' = lookedUp \cup {<<"load_script_system", "zig_init">>}
    /\ IF "zig_init" \in exports
          THEN pc' = "s_get_update" /\ UNCHANGED activation
          ELSE pc' = "s_return" /\ activation' = "SymbolNotFound"
    /\ UNCHANGED <<envVars, hostVars, worldVars, libVars, callVars, tickLoads, tickLocks, UPDATE_LOCK>>

\* ResolveUpdate going on without the `init_fn();` statement.
ResolveUpdate_skipsInit ==
    /\ pc = "s_get_update"
    /\ lookedUp' = lookedUp \cup {<<"load_script_system", "zig_update">>}
    /\ IF "zig_update" \in exports
          THEN pc' = "s_call_update" /\ UNCHANGED activation
          ELSE pc' = "s_return" /\ activation' = "SymbolNotFound"
    /\ UNCHANGED <<envVars, hostVars, worldVars, libVars, callVars, tickLoads, tickLocks, UPDATE_LOCK>>

\* `static_lib.get(b"zig_update")`: Err logs and returns.
ResolveUpdate ==
    /\ pc = "s_get_update"
    /\ lookedUp' = lookedUp \cup {<<"load_script_system", "zig_update">>}
    /\ IF "zig_update" \in exports
          THEN pc' = "s_call_init" /\ UNCHANGED activation
          ELSE pc' = "s_return" /\ activation' = "SymbolNotFound"
    /\ UNCHANGED <<envVars, hostVars, worldVars, libVars, callVars, tickLoads, tickLocks, UPDATE_LOCK>>

\* `init_fn();`
CallInit ==
    /\ pc = "s_call_init"
    /\ inCall' = Some(Call("zig_init", <<>>, "load_script_system", "static_lib"))
    /\ initCalls' = initCalls + 1
    /\ pc' = "s_in_init"
    /\ UNCHANGED <<envVars, hostVars, worldVars, libVars, updateCalls, voidCalls,
                   tickUpdates, returned, obsVars, UPDATE_LOCK>>

\* InitReturns without `commands.insert_resource(FrameCounter(0));`.
InitReturns_noCounter ==
    /\ pc = "s_in_init"
    /\ inCall' = None
    /\ returned' = returned + 1
    /\ commands' = commands \o
          << [insert |-> "ScriptFns", value |-> [init |-> "zig_init", update |-> "zig_update"]] >>
    /\ activation' = "Active"
    /\ pc' = "s_call_update"
    /\ UNCHANGED <<envVars, hostVars, ScriptFns, FrameCounter, libVars, initCalls,
                   updateCalls, voidCalls, tickUpdates, tickLoads, tickLocks, lookedUp,
                   UPDATE_LOCK>>

\* zig_init returns; the two insert_resource commands are queued.
InitReturns ==
    /\ pc = "s_in_init"
    /\ inCall' = None
    /\ returned' = returned + 1
    /\ commands' = commands \o
          << [insert |-> "ScriptFns", value |-> [init |-> "zig_init", update |-> "zig_update"]],
             [insert |-> "FrameCounter", value |-> 0] >>
    /\ activation' = "Active"
    /\ pc' = "s_call_update"
    /\ UNCHANGED <<envVars, hostVars, ScriptFns, FrameCounter, libVars, initCalls,
                   updateCalls, voidCalls, tickUpdates, tickLoads, tickLocks, lookedUp, UPDATE_LOCK>>

\* `(update_fn)(1.0 / 60.0);` in the Startup system.
StartupCallUpdate ==
    /\ pc = "s_call_update"
    /\ inCall' = Some(Call("zig_update", <<FixedDt>>, "load_script_system", "static_lib"))
    /\ updateCalls' = updateCalls + 1
    /\ pc' = "s_in_update"
    /\ UNCHANGED <<envVars, hostVars, worldVars, libVars, initCalls, returned, voidCalls,
                   tickUpdates, obsVars, UPDATE_LOCK>>

\* StartupUpdateReturns with the Library owned by the system instead of leaked:
\* it is dropped, and the module unloaded, when the system returns.
StartupUpdateReturns_dropsLib ==
    /\ pc = "s_in_update"
    /\ inCall' = None
    /\ returned' = returned + 1
    /\ static_lib' = FALSE
    /\ pc' = "s_return"
    /\ UNCHANGED <<envVars, hostVars, worldVars, freshOpen, initCalls, updateCalls,
                   voidCalls, tickUpdates, obsVars, UPDATE_LOCK>>

\* `(update_fn)(1.0 / 60.0)` returns and with it load_script_system.
StartupUpdateReturns ==
    /\ pc = "s_in_update"
    /\ inCall' = None
    /\ returned' = returned + 1
    /\ pc' = "s_return"
    /\ UNCHANGED <<envVars, hostVars, worldVars, libVars, initCalls, updateCalls,
                   voidCalls, tickUpdates, obsVars, UPDATE_LOCK>>

\* One queued command applied to the world.
RECURSIVE ApplyTo(_, _, _)
ApplyTo(name, cur, queue) ==
    IF queue = <<>> THEN cur
    ELSE ApplyTo(name,
                 IF Head(queue).insert = name THEN Some(Head(queue).value) ELSE cur,
                 Tail(queue))

\* load_script_system has returned: the schedule applies its queued Commands.
ApplyDeferred ==
    /\ pc = "s_return"
    /\ ScriptFns' = ApplyTo("ScriptFns", ScriptFns, commands)
    /\ FrameCounter' = ApplyTo("FrameCounter", FrameCounter, commands)
    /\ commands' = <<>>
    /\ pc' = "idle"
    /\ UNCHANGED <<envVars, hostVars, libVars, callVars, obsVars, UPDATE_LOCK>>

\* ------------------------------------------------- script_update_system
\* The run loop delivers one more tick: Update runs script_update_system with
\* the resources as they are now and the elapsed time the host measured.
HostTick ==
    /\ pc = "idle"
    /\ tick < MaxTicks
    /\ tick' = tick + 1
    /\ \E dt \in Deltas : delta' = dt
    /\ \E t \in ThreadsFor(TRUE) : runsOn' = t
    /\ tickUpdates' = 0
    /\ tickLocks' = 0
    /\ pc' = "u_enter"
    /\ UNCHANGED <<envVars, appExit, worldVars, libVars, inCall, initCalls, returned,
                   updateCalls, voidCalls, activation, tickLoads, lookedUp, UPDATE_LOCK>>

\* EnterUpdate running the activation again on a tick that finds no ScriptFns.
EnterUpdate_retries ==
    /\ pc = "u_enter"
    /\ IF IsSome(ScriptFns)
          THEN /\ UPDATE_LOCK = "free"
               /\ UPDATE_LOCK' = "script_update_system"
               /\ tickLocks' = tickLocks + 1
               /\ pc' = "u_probe_void"
          ELSE /\ pc' = "s_locate"
               /\ UNCHANGED <<UPDATE_LOCK, tickLocks>>
    /\ UNCHANGED <<envVars, hostVars, worldVars, libVars, callVars, activation, tickLoads,
                   lookedUp>>

\* `if let Some(fns_res) = script_fns { .. let _guard = UPDATE_LOCK.lock().unwrap();`
\* lock() waits while the mutex is held.
EnterUpdate ==
    /\ pc = "u_enter"
    /\ IF IsSome(ScriptFns)
          THEN /\ UPDATE_LOCK = "free"
               /\ UPDATE_LOCK' = "script_update_system"
               /\ tickLocks' = tickLocks + 1
               /\ pc' = "u_probe_void"
          ELSE /\ pc' = "u_count"
               /\ UNCHANGED <<UPDATE_LOCK, tickLocks>>
    /\ UNCHANGED <<envVars, hostVars, worldVars, libVars, callVars, activation, tickLoads,
                   lookedUp>>

\* Results Library::new can give for a per-tick load of the module file.
FreshLoadResults == IF pathExists /\ loadable THEN BOOLEAN ELSE {FALSE}

\* FreshLoadAndCall with the Library dropped once the function pointer has been
\* copied out of the Symbol, before the call.
FreshLoadAndCall_dropsFirst(at, sym, args, handle, inPc, skipPc) ==
    /\ pc = at
    /\ tickLoads' = tickLoads + 1
    /\ \E ok \in FreshLoadResults :
          IF ok
             THEN /\ lookedUp' = lookedUp \cup {<<"script_update_system", sym>>}
                  /\ IF sym \in exports
                        THEN /\ inCall' = Some(Call(sym, args, "script_update_system", handle))
                             /\ pc' = inPc
                        ELSE /\ pc' = skipPc
                             /\ UNCHANGED inCall
             ELSE /\ pc' = skipPc
                  /\ UNCHANGED <<lookedUp, inCall>>
    /\ UNCHANGED freshOpen
    /\ updateCalls' = IF IsSome(inCall') /\ sym = "zig_update"
                         THEN updateCalls + 1 ELSE updateCalls
    /\ tickUpdates' = IF IsSome(inCall') /\ sym = "zig_update"
                         THEN tickUpdates + 1 ELSE tickUpdates
    /\ voidCalls' = IF IsSome(inCall') /\ sym = "zig_update_void"
                       THEN voidCalls + 1 ELSE voidCalls
    /\ UNCHANGED <<envVars, hostVars, worldVars, static_lib, initCalls, returned,
                   activation, tickLocks, UPDATE_LOCK>>

\* A per-tick `Library::new(&lib_path)` followed by `get(sym)` and a call of the
\* symbol: at `at`, going to `inPc` with the call in progress when both succeed
\* and to `skipPc`, with the Library dropped, when either fails.
FreshLoadAndCall(at, sym, args, handle, inPc, skipPc) ==
    /\ pc = at
    /\ tickLoads' = tickLoads + 1
    /\ \E ok \in FreshLoadResults :
          IF ok
             THEN /\ lookedUp' = lookedUp \cup {<<"script_update_system", sym>>}
                  /\ IF sym \in exports
                        THEN /\ freshOpen' = freshOpen + 1
                             /\ inCall' = Some(Call(sym, args, "script_update_system", handle))
                             /\ pc' = inPc
                        ELSE /\ pc' = skipPc
                             /\ UNCHANGED <<freshOpen, inCall>>
             ELSE /\ pc' = skipPc
                  /\ UNCHANGED <<lookedUp, freshOpen, inCall>>
    /\ updateCalls' = IF IsSome(inCall') /\ sym = "zig_update"
                         THEN updateCalls + 1 ELSE updateCalls
    /\ tickUpdates' = IF IsSome(inCall') /\ sym = "zig_update"
                         THEN tickUpdates + 1 ELSE tickUpdates
    /\ voidCalls' = IF IsSome(inCall') /\ sym = "zig_update_void"
                       THEN voidCalls + 1 ELSE voidCalls
    /\ UNCHANGED <<envVars, hostVars, worldVars, static_lib, initCalls, returned, activation, tickLocks,
                   UPDATE_LOCK>>

\* FreshCallReturns with the hook going on without waiting for the call: the
\* Library is dropped and the next statement runs while the call is in progress.
FreshCallReturns_noWait(at, toPc) ==
    /\ pc = at
    /\ freshOpen' = freshOpen - 1
    /\ pc' = toPc
    /\ UNCHANGED <<envVars, hostVars, worldVars, static_lib, callVars, obsVars, UPDATE_LOCK>>

\* The call made through a per-tick load returns and its Library is dropped.
FreshCallReturns(at, toPc) ==
    /\ pc = at
    /\ inCall' = None
    /\ returned' = returned + 1
    /\ freshOpen' = freshOpen - 1
    /\ pc' = toPc
    /\ UNCHANGED <<envVars, hostVars, worldVars, static_lib, initCalls, updateCalls,
                   voidCalls, tickUpdates, obsVars, UPDATE_LOCK>>

\* `if let Ok(lib2) = Library::new(..) { if let Ok(sym2) = lib2.get(b"zig_update_void") { f2(); ..`
ProbeVoid ==
    FreshLoadAndCall("u_probe_void", "zig_update_void", <<>>, "lib2",
                     "u_in_probe_void", "u_call")

ProbeVoidReturns == FreshCallReturns("u_in_probe_void", "u_call")

\* `(fns.update)(1.0 / 60.0);`
CallUpdate ==
    /\ pc = "u_call"
    /\ inCall' = Some(Call(ScriptFns[1].update, <<FixedDt>>, "script_update_system",
                           "static_lib"))
    /\ updateCalls' = updateCalls + 1
    /\ tickUpdates' = tickUpdates + 1
    /\ pc' = "u_in_call"
    /\ UNCHANGED <<envVars, hostVars, worldVars, libVars, initCalls, returned, voidCalls, obsVars,
                   UPDATE_LOCK>>

UpdateReturns ==
    /\ pc = "u_in_call"
    /\ inCall' = None
    /\ returned' = returned + 1
    /\ pc' = "u_fresh"
    /\ UNCHANGED <<envVars, hostVars, worldVars, libVars, initCalls, updateCalls,
                   voidCalls, tickUpdates, obsVars, UPDATE_LOCK>>

\* `match Library::new(&lib_path) { Ok(lib) => match lib.get(b"zig_update") { Ok(sym) => f(1.0 / 60.0)`
FreshUpdate ==
    FreshLoadAndCall("u_fresh", "zig_update", <<FixedDt>>, "lib",
                     "u_in_fresh", "u_fresh_void")

FreshUpdateReturns == FreshCallReturns("u_in_fresh", "u_fresh_void")

\* `match Library::new(&lib_path) { Ok(lib2) => match lib2.get(b"zig_update_void") { Ok(sym2) => f2()`
FreshVoid ==
    FreshLoadAndCall("u_fresh_void", "zig_update_void", <<>>, "lib2",
                     "u_in_fresh_void", "u_unlock")

FreshVoidReturns == FreshCallReturns("u_in_fresh_void", "u_unlock")

\* Unlock with the guard forgotten instead of dropped: the mutex stays locked.
Unlock_forgets ==
    /\ pc = "u_unlock"
    /\ pc' = "u_count"
    /\ UNCHANGED <<envVars, hostVars, worldVars, libVars, callVars, obsVars, UPDATE_LOCK>>

\* End of the unsafe block: `_guard` is dropped.
Unlock ==
    /\ pc = "u_unlock"
    /\ UPDATE_LOCK' = "free"
    /\ pc' = "u_count"
    /\ UNCHANGED <<envVars, hostVars, worldVars, libVars, callVars, obsVars>>

\* CountFrame counting the ticks of the host instead of the optional resource.
CountFrame_countsTicks ==
    /\ pc = "u_count"
    /\ FrameCounter' = IF IsSome(FrameCounter) THEN Some(FrameCounter[1] + 1) ELSE None
    /\ appExit' = (appExit \/ tick > FrameLimit)
    /\ pc' = "idle"
    /\ UNCHANGED <<envVars, tick, delta, runsOn, commands, ScriptFns, libVars, callVars, obsVars,
                   UPDATE_LOCK>>

\* CountFrame starting the count again once the frame limit is passed.
CountFrame_resets ==
    /\ pc = "u_count"
    /\ IF IsSome(FrameCounter)
          THEN /\ FrameCounter' = IF FrameCounter[1] + 1 > FrameLimit
                                     THEN Some(0) ELSE Some(FrameCounter[1] + 1)
               /\ appExit' = (appExit \/ FrameCounter[1] + 1 > FrameLimit)
          ELSE UNCHANGED <<FrameCounter, appExit>>
    /\ pc' = "idle"
    /\ UNCHANGED <<envVars, tick, delta, runsOn, commands, ScriptFns, libVars, callVars,
                   obsVars, UPDATE_LOCK>>

\* `if let Some(mut c) = counter { c.0 += 1; if c.0 > 10 { exit.send(AppExit); } }`
CountFrame ==
    /\ pc = "u_count"
    /\ IF IsSome(FrameCounter)
          THEN /\ FrameCounter' = Some(FrameCounter[1] + 1)
               /\ appExit' = (appExit \/ FrameCounter[1] + 1 > FrameLimit)
          ELSE UNCHANGED <<FrameCounter, appExit>>
    /\ pc' = "idle"
    /\ UNCHANGED <<envVars, tick, delta, runsOn, commands, ScriptFns, libVars, callVars, obsVars,
                   UPDATE_LOCK>>

\* ------------------------------------------------------------ the host
\* `.run()`: the run loop ends once it has seen the AppExit event.  The loop is
\* the host framework's; when it reads the event is not fixed by this program.
HostExit ==
    /\ pc = "idle"
    /\ appExit
    /\ pc' = "stopped"
    /\ UNCHANGED <<envVars, hostVars, worldVars, libVars, callVars, obsVars, UPDATE_LOCK>>

\* The operator builds the script while the host already runs without it.
ScriptAppears ==
    /\ pc = "idle"
    /\ ~pathExists
    /\ \E f \in ModuleFiles :
          /\ f.exists
          /\ pathExists' = TRUE
          /\ loadable' = f.loads
          /\ exports' = f.syms
    /\ appearedLate' = TRUE
    /\ UNCHANGED <<hostVars, worldVars, libVars, callVars, obsVars, pc, UPDATE_LOCK>>

Next ==
    \/ RunStartup
    \/ LocateScript
    \/ LoadLibrary
    \/ ResolveInit
    \/ ResolveUpdate
    \/ CallInit
    \/ InitReturns
    \/ StartupCallUpdate
    \/ StartupUpdateReturns
    \/ ApplyDeferred
    \/ HostTick
    \/ EnterUpdate
    \/ ProbeVoid
    \/ ProbeVoidReturns
    \/ CallUpdate
    \/ UpdateReturns
    \/ FreshUpdate
    \/ FreshUpdateReturns
    \/ FreshVoid
    \/ FreshVoidReturns
    \/ Unlock
    \/ CountFrame
    \/ HostExit
    \/ ScriptAppears

Spec == Init /\ [][Next]_vars

TypeOK ==
    /\ pathExists \in BOOLEAN /\ loadable \in BOOLEAN /\ appearedLate \in BOOLEAN
    /\ exports \subseteq ExportNames
    /\ tick \in 0..MaxTicks /\ delta \in Deltas /\ appExit \in BOOLEAN
    /\ runsOn \in Threads /\ returned \in Nat /\ tickLocks \in 0..1
    /\ UPDATE_LOCK \in {"free", "script_update_system"}
    /\ static_lib \in BOOLEAN /\ freshOpen \in 0..1
    /\ Len(inCall) <= 1 /\ Len(ScriptFns) <= 1 /\ Len(FrameCounter) <= 1
    /\ activation \in {"pending", "ModuleNotFound", "LoadFailed", "SymbolNotFound", "Active"}
\* ------------------------------------------------------------ properties
\* Positions inside load_script_system and the Startup schedule.
StartupPcs ==
    {"boot", "s_locate", "s_load", "s_get_init", "s_get_update", "s_call_init",
     "s_in_init", "s_call_update", "s_in_update", "s_return"}

\* The module file was there when the Startup system looked for it.
PresentAtStartup == pathExists /\ ~appearedLate
\* The module was there at startup, loads and exports both required entry points.
ValidAtStartup == PresentAtStartup /\ loadable /\ Required \subseteq exports
\* The call of zig_init has been made and has returned.
InitReturned == initCalls = 1 /\ ~(IsSome(inCall) /\ inCall[1].fn = "zig_init")
\* No call into the module has been made or is in progress.
NoNativeCall == initCalls = 0 /\ updateCalls = 0 /\ voidCalls = 0 /\ inCall = None
\* Neither resource of the bridge is in the world or queued for it.
Inactive == ScriptFns = None /\ FrameCounter = None /\ commands = <<>>
\* The bridge is driving the module and has not asked the host to stop.
Running == IsSome(ScriptFns) /\ ~appExit

\* C1: for a module that exists, loads and exports both required entry points,
\* zig_init is called exactly once (never twice, and once by the time the
\* Startup system has returned), and no other export, through the stored
\* pointer or a per-tick load, is called before that call has returned.
C1_InitOnceBeforeAnyCall ==
    ValidAtStartup =>
        /\ initCalls <= 1
        /\ (pc \notin StartupPcs => initCalls = 1)
        /\ (updateCalls + voidCalls > 0 => InitReturned)

\* C1 witness: a valid module in a tick in which zig_update_void and both
\* zig_update calls (stored pointer, fresh load) have been made after zig_init.
C1_Witness ==
    /\ ValidAtStartup
    /\ initCalls = 1
    /\ tick >= 2
    /\ tickUpdates = 2
    /\ voidCalls > 0
    /\ pc = "u_count"

\* C2 (as claimed): for a valid module no eleventh call of zig_update is ever
\* made, and when shutdown has been signalled exactly ten have been made.
C2_TenUpdatesThenShutdown ==
    ValidAtStartup =>
        /\ updateCalls <= 10
        /\ (appExit => updateCalls = 10)

\* C3 (as claimed): while Running a tick makes at most one call of zig_update,
\* and exactly one by the time the hook reaches its frame count.
C3_OneUpdatePerTick ==
    Running =>
        /\ tickUpdates <= 1
        /\ (pc = "u_count" => tickUpdates = 1)

\* C4 (as claimed): once shutdown has been signalled no step calls zig_update.
C4_FinishedIsTerminal == [][appExit => updateCalls' = updateCalls]_vars

\* C5: when the module file is missing at startup the Startup system reports
\* ModuleNotFound, the bridge is Inactive, and no export is ever called, at
\* startup or on a later tick, even if the file appears later.
C5_MissingPathNoNativeCall ==
    ~PresentAtStartup =>
        /\ NoNativeCall
        /\ Inactive
        /\ ~static_lib
        /\ (pc \notin {"boot", "s_locate"} => activation = "ModuleNotFound")

\* C5 witness: the hook runs on a later tick after the missing file has
\* appeared as a fully valid module.
C5_Witness ==
    /\ appearedLate
    /\ loadable
    /\ Required \subseteq exports
    /\ tick >= 2
    /\ pc = "u_count"

\* C6: when the module loads but a required export is missing, activation
\* ends Inactive with SymbolNotFound and neither zig_init nor zig_update is
\* ever called.
C6_MissingExportNoCall ==
    (PresentAtStartup /\ loadable /\ ~(Required \subseteq exports)) =>
        /\ initCalls = 0
        /\ updateCalls = 0
        /\ inCall = None
        /\ Inactive
        /\ (pc \notin StartupPcs => activation = "SymbolNotFound")

\* C6 witness: zig_init is exported and zig_update is not, the library is
\* loaded, and the hook runs on a later tick.
C6_Witness ==
    /\ PresentAtStartup
    /\ static_lib
    /\ "zig_init" \in exports
    /\ "zig_update" \notin exports
    /\ tick >= 2
    /\ pc = "u_count"

\* The ways activation fails.
Failures == {"ModuleNotFound", "LoadFailed", "SymbolNotFound"}

\* What a step may do once activation has failed: nothing to the outcome, the
\* resources, the libraries, the lookups or the calls, and no re-entry into
\* the activation.
StaysFailed ==
    /\ activation' = activation
    /\ Inactive'
    /\ static_lib' = static_lib /\ freshOpen' = freshOpen
    /\ tickLoads' = tickLoads /\ lookedUp' = lookedUp
    /\ callVars' = callVars
    /\ pc' \notin {"s_locate", "s_load", "s_get_init", "s_get_update"}

\* C7: after any activation failure nothing about the bridge changes again:
\* the outcome stays the failure, the resources stay absent, and no step
\* loads the module, looks up a symbol or calls into it.
C7_FailureIsPermanent == [][(activation \in Failures) => StaysFailed]_vars

\* C7 witness: a module that failed to activate for a missing export, with the
\* hook running on a later tick.
C7_Witness ==
    /\ activation = "SymbolNotFound"
    /\ tick >= 3
    /\ pc = "u_count"

\* C8: when activation failed the hook never sends AppExit.
C8_InactiveNeverExits ==
    (pc \notin StartupPcs /\ activation # "Active") => ~appExit

\* C8 witness: activation failed and more ticks than the frame limit have run.
C8_Witness ==
    /\ activation = "LoadFailed"
    /\ tick > FrameLimit + 1
    /\ pc = "idle"

\* C9 (as claimed): every call of zig_update made by the per-tick hook passes
\* the elapsed time the host reports for that tick.
C9_UpdateGetsTickDelta ==
    (IsSome(inCall) /\ inCall[1].fn = "zig_update"
        /\ inCall[1].system = "script_update_system")
    => inCall[1].args = <<delta>>

\* C10 (as claimed): every call into the module is made by a system that
\* holds UPDATE_LOCK.
C10_CallsHoldGuard ==
    IsSome(inCall) => UPDATE_LOCK = inCall[1].system

\* Positions inside script_update_system.
TickPcs ==
    {"u_enter", "u_probe_void", "u_in_probe_void", "u_call", "u_in_call", "u_fresh",
     "u_in_fresh", "u_fresh_void", "u_in_fresh_void", "u_unlock", "u_count"}

\* Calls into the module that have begun and not returned.
InFlight == initCalls + updateCalls + voidCalls - returned

\* A step that keeps calls into the module apart: at most one is in progress
\* after it, a call begins only when none is in progress, and a tick begins
\* only when the Startup system is done and no earlier call is in progress.
NoOverlapStep ==
    /\ InFlight' \in {0, 1}
    /\ (initCalls' + updateCalls' + voidCalls' # initCalls + updateCalls + voidCalls
           => InFlight = 0)
    /\ (tick' # tick => InFlight = 0 /\ pc \notin StartupPcs)

\* C11: no two calls into the module are in progress at the same time, in the
\* Startup system or in any tick, and every call of one tick has returned
\* before the next tick, and so its zig_update call, begins.
C11_NoOverlappingCalls == [][NoOverlapStep]_vars

\* C11 witness: the fresh-load zig_update call of a later tick in progress,
\* begun after the startup calls and that tick's earlier calls returned.
C11_Witness ==
    /\ tick >= 2
    /\ IsSome(inCall)
    /\ inCall[1].fn = "zig_update"
    /\ inCall[1].handle = "lib"
    /\ tickUpdates = 2
    /\ returned >= 5

\* C12 (as claimed): the system that has loaded the module at startup, and
\* any system with a call into the module in progress, runs on the main thread.
C12_BridgeOnMainThread ==
    (IsSome(inCall) \/ (pc \in StartupPcs /\ static_lib)) => runsOn = "main"

\* Module handles open on the module: the leaked one and the per-tick ones.
LoadCount == (IF static_lib THEN 1 ELSE 0) + freshOpen

\* A step that leaves the leaked library loaded, and the module loaded whenever
\* the bridge is active.
StaysLoadedStep ==
    /\ (static_lib => static_lib')
    /\ ((activation' = "Active" \/ IsSome(ScriptFns')) => static_lib' /\ LoadCount' >= 1)

\* C13: the library loaded at startup is never closed, so from activation on
\* the module's load count stays at least one, across the per-tick loads and
\* releases too.
C13_StaticLibNeverClosed == [][StaysLoadedStep]_vars

\* C13 witness: an active bridge late in a tick, after per-tick loads that
\* succeeded have been released again, with only the leaked handle open.
C13_Witness ==
    /\ activation = "Active"
    /\ pc = "u_unlock"
    /\ tick >= 2
    /\ voidCalls >= 3
    /\ static_lib
    /\ LoadCount = 1

\* The Library value named by a call's handle has not been dropped.
HandleOpen(h) == IF h = "static_lib" THEN static_lib ELSE freshOpen >= 1

\* C14: a call in progress goes through a handle that is still open, and the
\* entry points stored in ScriptFns (or queued for it) belong to a library
\* that is still loaded.
C14_CallsThroughOpenHandle ==
    /\ (IsSome(inCall) => HandleOpen(inCall[1].handle))
    /\ ((IsSome(ScriptFns) \/ commands # <<>>) => static_lib)

\* C14 witness: zig_update being called through a per-tick load whose Library
\* is still open.
C14_Witness ==
    /\ IsSome(inCall)
    /\ inCall[1].fn = "zig_update"
    /\ inCall[1].handle = "lib"
    /\ freshOpen = 1
    /\ tick >= 2

\* C15 (as claimed): script_update_system never loads the module, and the
\* only symbols ever looked up are zig_init and zig_update, by the Startup
\* system.
C15_LoadAndResolveOnlyAtStartup ==
    /\ tickLoads = 0
    /\ \A l \in lookedUp : l[1] = "load_script_system" /\ l[2] \in Required

\* C16: FrameCounter exists exactly when activation succeeded, it is absent
\* while the Startup system runs, and its value is the number of ticks whose
\* hook has finished: 0 at activation, one more after every tick, never less.
C16_CounterCountsTicks ==
    /\ (pc \in StartupPcs => FrameCounter = None)
    /\ (pc \notin StartupPcs => (IsSome(FrameCounter) <=> activation = "Active"))
    /\ (IsSome(FrameCounter) =>
           FrameCounter[1] = IF pc \in TickPcs THEN tick - 1 ELSE tick)

\* C16 witness: the counter past the frame limit, still equal to the ticks run.
C16_Witness ==
    /\ FrameCounter = Some(FrameLimit + 2)
    /\ tick = FrameLimit + 2
    /\ pc = "idle"

\* A step that keeps ScriptFns and FrameCounter paired: both present or both
\* absent after it, neither removed nor ScriptFns changed by it, both absent
\* after a failed activation, and the step that ends a tick advances the
\* counter exactly when the tick called zig_update.
PairedStep ==
    /\ (IsSome(ScriptFns') <=> IsSome(FrameCounter'))
    /\ (IsSome(ScriptFns) => ScriptFns' = ScriptFns)
    /\ (IsSome(FrameCounter) => IsSome(FrameCounter'))
    /\ (activation' \in Failures => ScriptFns' = None /\ FrameCounter' = None)
    /\ ((pc = "u_count" /\ pc' = "idle") =>
           (tickUpdates >= 1 <=> FrameCounter' # FrameCounter))

\* C17: ScriptFns and FrameCounter are always both present or both absent,
\* are never removed, are absent after every activation failure, and a tick
\* calls zig_update if and only if it advances the counter.
C17_ResourcesPaired == [][PairedStep]_vars

\* C17 witness: a later tick that has called zig_update and is about to count,
\* with both resources present.
C17_Witness ==
    /\ IsSome(ScriptFns)
    /\ IsSome(FrameCounter)
    /\ pc = "u_count"
    /\ tickUpdates >= 1
    /\ tick >= 2

\* C18: UPDATE_LOCK is free whenever no tick is inside the unsafe block: when
\* a tick begins, when it counts its frame and between ticks, whichever
\* per-tick loads or lookups failed; and a tick locks it at most once.
C18_GuardFreeBetweenTicks ==
    /\ (pc \in StartupPcs \cup {"idle", "u_enter", "u_count", "stopped"}
           => UPDATE_LOCK = "free")
    /\ tickLocks <= 1

\* C18 witness: an active bridge at the start of a tick, after ticks in which
\* every per-tick load failed although the module exports zig_update_void.
C18_Witness ==
    /\ pc = "u_enter"
    /\ IsSome(ScriptFns)
    /\ tick >= 3
    /\ "zig_update_void" \in exports
    /\ voidCalls = 0
    /\ updateCalls = tick
    /\ UPDATE_LOCK = "free"
====
